---- MODULE Spec2Model ----
(***************************************************************************)
(* Vertex orientation of H3 cells (src/h3lib/lib/vertex.c).                *)
(*                                                                         *)
(* vertex.c holds two pure queries over a cell: vertexRotations and        *)
(* vertexNumForDirection.  The cell is read through four collaborators     *)
(* that live in other files: _h3ToFaceIjk (the face), h3GetBaseCell,       *)
(* _h3LeadingNonZeroDigit and h3IsPentagon.  A cell is therefore modelled  *)
(* by the four values those calls return.  The model draws a cell in Init, *)
(* and each action applies one of the two queries to it.                   *)
(***************************************************************************)
EXTENDS Integers, Sequences, FiniteSets

VARIABLES cell, pc, direction, rotations, sum, result

vars == <<cell, pc, direction, rotations, sum, result>>

(***************************************************************************)
(* Program constants.  The headers that set them are not part of the       *)
(* file; each value is the one the file itself fixes: the table has 122    *)
(* rows of 5 slots, the canonical tables have seven initialisers for       *)
(* NUM_DIGITS entries (ordinals 0..6, of which only 0, and 1 for           *)
(* pentagons, are documented as unused), so that INVALID_DIGIT, the first  *)
(* ordinal that is no digit, is 7.                                         *)
(***************************************************************************)
NUM_BASE_CELLS == 122

MAX_BASE_CELL_FACES == 5

NUM_ICOSA_FACES == 20

CENTER_DIGIT == 0

K_AXES_DIGIT == 1

J_AXES_DIGIT == 2

JK_AXES_DIGIT == 3

I_AXES_DIGIT == 4

IK_AXES_DIGIT == 5

IJ_AXES_DIGIT == 6

INVALID_DIGIT == 7

NUM_DIGITS == 7

NUM_HEX_VERTS == 6

NUM_PENT_VERTS == 5

INVALID_ROTATIONS == -1

INVALID_VERTEX_NUM == -1

(***************************************************************************)
(* Bound: direction ordinals 0..MaxDirection are passed to                 *)
(* vertexNumForDirection, so that ordinals at and beyond INVALID_DIGIT     *)
(* occur.                                                                  *)
(***************************************************************************)
MaxDirection == 8

\* BaseCellRotation {face, ccwRot60}
R(f, r) == [face |-> f, ccwRot60 |-> r]

\* baseCellVertexRotations[NUM_BASE_CELLS][MAX_BASE_CELL_FACES]; row b of the
\* C array is element b + 1 of the sequence, slot i is element i + 1.
baseCellVertexRotations ==
   <<
      <<R(0, 5), R(1, 0), R(2, 1), R(-1, 0), R(-1, 0)>>,  \* base cell 0
      <<R(1, 5), R(2, 0), R(-1, 0), R(-1, 0), R(-1, 0)>>,  \* base cell 1
      <<R(0, 5), R(1, 0), R(2, 1), R(6, 3), R(-1, 0)>>,  \* base cell 2
      <<R(1, 5), R(2, 0), R(3, 1), R(-1, 0), R(-1, 0)>>,  \* base cell 3
      <<R(4, 5), R(0, 0), R(2, 3), R(1, 2), R(3, 4)>>,  \* base cell 4 (pent)
      <<R(0, 5), R(1, 0), R(-1, 0), R(-1, 0), R(-1, 0)>>,  \* base cell 5
      <<R(1, 0), R(2, 1), R(6, 3), R(-1, 0), R(-1, 0)>>,  \* base cell 6
      <<R(1, 5), R(2, 0), R(3, 1), R(7, 3), R(-1, 0)>>,  \* base cell 7
      <<R(0, 0), R(1, 1), R(4, 5), R(-1, 0), R(-1, 0)>>,  \* base cell 8
      <<R(1, 5), R(2, 0), R(7, 3), R(-1, 0), R(-1, 0)>>,  \* base cell 9
      <<R(0, 5), R(1, 0), R(6, 3), R(-1, 0), R(-1, 0)>>,  \* base cell 10
      <<R(1, 0), R(6, 3), R(-1, 0), R(-1, 0), R(-1, 0)>>,  \* base cell 11
      <<R(2, 5), R(3, 0), R(4, 1), R(-1, 0), R(-1, 0)>>,  \* base cell 12
      <<R(2, 5), R(3, 0), R(-1, 0), R(-1, 0), R(-1, 0)>>,  \* base cell 13
      <<R(6, 3), R(11, 0), R(2, 1), R(7, 4), R(1, 0)>>,  \* base cell 14 (pent)
      <<R(0, 1), R(3, 5), R(4, 0), R(-1, 0), R(-1, 0)>>,  \* base cell 15
      <<R(0, 0), R(1, 1), R(4, 5), R(5, 3), R(-1, 0)>>,  \* base cell 16
      <<R(1, 3), R(6, 0), R(11, 3), R(-1, 0), R(-1, 0)>>,  \* base cell 17
      <<R(0, 0), R(1, 1), R(5, 3), R(-1, 0), R(-1, 0)>>,  \* base cell 18
      <<R(2, 0), R(7, 3), R(-1, 0), R(-1, 0), R(-1, 0)>>,  \* base cell 19
      <<R(2, 3), R(7, 0), R(11, 3), R(-1, 0), R(-1, 0)>>,  \* base cell 20
      <<R(2, 0), R(3, 1), R(7, 3), R(-1, 0), R(-1, 0)>>,  \* base cell 21
      <<R(0, 0), R(4, 5), R(-1, 0), R(-1, 0), R(-1, 0)>>,  \* base cell 22
      <<R(1, 3), R(6, 0), R(10, 3), R(-1, 0), R(-1, 0)>>,  \* base cell 23
      <<R(5, 3), R(10, 0), R(1, 1), R(6, 4), R(0, 0)>>,  \* base cell 24 (pent)
      <<R(1, 3), R(6, 0), R(10, 3), R(11, 3), R(-1, 0)>>,  \* base cell 25
      <<R(2, 5), R(3, 0), R(4, 1), R(8, 3), R(-1, 0)>>,  \* base cell 26
      <<R(6, 3), R(7, 3), R(11, 0), R(-1, 0), R(-1, 0)>>,  \* base cell 27
      <<R(3, 5), R(4, 0), R(-1, 0), R(-1, 0), R(-1, 0)>>,  \* base cell 28
      <<R(2, 5), R(3, 0), R(8, 3), R(-1, 0), R(-1, 0)>>,  \* base cell 29
      <<R(0, 0), R(5, 3), R(-1, 0), R(-1, 0), R(-1, 0)>>,  \* base cell 30
      <<R(0, 1), R(3, 5), R(4, 0), R(9, 3), R(-1, 0)>>,  \* base cell 31
      <<R(0, 3), R(5, 0), R(10, 3), R(-1, 0), R(-1, 0)>>,  \* base cell 32
      <<R(0, 0), R(4, 5), R(5, 3), R(-1, 0), R(-1, 0)>>,  \* base cell 33
      <<R(2, 3), R(7, 0), R(12, 3), R(-1, 0), R(-1, 0)>>,  \* base cell 34
      <<R(6, 3), R(11, 0), R(-1, 0), R(-1, 0), R(-1, 0)>>,  \* base cell 35
      <<R(2, 3), R(7, 0), R(11, 3), R(12, 3), R(-1, 0)>>,  \* base cell 36
      <<R(5, 3), R(6, 3), R(10, 0), R(-1, 0), R(-1, 0)>>,  \* base cell 37
      <<R(7, 3), R(12, 0), R(3, 1), R(8, 4), R(2, 0)>>,  \* base cell 38 (pent)
      <<R(6, 0), R(10, 3), R(-1, 0), R(-1, 0), R(-1, 0)>>,  \* base cell 39
      <<R(7, 0), R(11, 3), R(-1, 0), R(-1, 0), R(-1, 0)>>,  \* base cell 40
      <<R(0, 1), R(4, 0), R(9, 3), R(-1, 0), R(-1, 0)>>,  \* base cell 41
      <<R(3, 0), R(4, 1), R(8, 3), R(-1, 0), R(-1, 0)>>,  \* base cell 42
      <<R(3, 0), R(8, 3), R(-1, 0), R(-1, 0), R(-1, 0)>>,  \* base cell 43
      <<R(3, 5), R(4, 0), R(9, 3), R(-1, 0), R(-1, 0)>>,  \* base cell 44
      <<R(6, 0), R(10, 3), R(11, 3), R(-1, 0), R(-1, 0)>>,  \* base cell 45
      <<R(6, 3), R(7, 3), R(11, 0), R(16, 3), R(-1, 0)>>,  \* base cell 46
      <<R(3, 3), R(8, 0), R(12, 3), R(-1, 0), R(-1, 0)>>,  \* base cell 47
      <<R(0, 3), R(5, 0), R(14, 3), R(-1, 0), R(-1, 0)>>,  \* base cell 48
      <<R(9, 3), R(14, 0), R(0, 1), R(5, 4), R(4, 0)>>,  \* base cell 49 (pent)
      <<R(0, 3), R(5, 0), R(10, 3), R(14, 3), R(-1, 0)>>,  \* base cell 50
      <<R(7, 3), R(8, 3), R(12, 0), R(-1, 0), R(-1, 0)>>,  \* base cell 51
      <<R(5, 3), R(10, 0), R(-1, 0), R(-1, 0), R(-1, 0)>>,  \* base cell 52
      <<R(4, 0), R(9, 3), R(-1, 0), R(-1, 0), R(-1, 0)>>,  \* base cell 53
      <<R(7, 3), R(12, 0), R(-1, 0), R(-1, 0), R(-1, 0)>>,  \* base cell 54
      <<R(7, 0), R(11, 3), R(12, 3), R(-1, 0), R(-1, 0)>>,  \* base cell 55
      <<R(6, 3), R(11, 0), R(16, 3), R(-1, 0), R(-1, 0)>>,  \* base cell 56
      <<R(5, 1), R(6, 3), R(10, 0), R(15, 3), R(-1, 0)>>,  \* base cell 57
      <<R(8, 3), R(13, 0), R(4, 1), R(9, 4), R(3, 0)>>,  \* base cell 58 (pent)
      <<R(6, 3), R(10, 0), R(15, 3), R(-1, 0), R(-1, 0)>>,  \* base cell 59
      <<R(7, 3), R(11, 0), R(16, 3), R(-1, 0), R(-1, 0)>>,  \* base cell 60
      <<R(4, 3), R(9, 0), R(14, 3), R(-1, 0), R(-1, 0)>>,  \* base cell 61
      <<R(3, 3), R(8, 0), R(13, 3), R(-1, 0), R(-1, 0)>>,  \* base cell 62
      <<R(11, 3), R(6, 0), R(15, 1), R(10, 4), R(16, 0)>>,  \* base cell 63 (pent)
      <<R(3, 3), R(8, 0), R(12, 3), R(13, 3), R(-1, 0)>>,  \* base cell 64
      <<R(4, 3), R(9, 0), R(13, 3), R(-1, 0), R(-1, 0)>>,  \* base cell 65
      <<R(5, 3), R(9, 3), R(14, 0), R(-1, 0), R(-1, 0)>>,  \* base cell 66
      <<R(5, 0), R(14, 3), R(-1, 0), R(-1, 0), R(-1, 0)>>,  \* base cell 67
      <<R(11, 3), R(16, 0), R(-1, 0), R(-1, 0), R(-1, 0)>>,  \* base cell 68
      <<R(8, 0), R(12, 3), R(-1, 0), R(-1, 0), R(-1, 0)>>,  \* base cell 69
      <<R(5, 0), R(10, 3), R(14, 3), R(-1, 0), R(-1, 0)>>,  \* base cell 70
      <<R(7, 3), R(8, 3), R(12, 0), R(17, 3), R(-1, 0)>>,  \* base cell 71
      <<R(12, 3), R(7, 0), R(16, 1), R(11, 4), R(17, 0)>>,  \* base cell 72 (pent)
      <<R(7, 3), R(12, 0), R(17, 3), R(-1, 0), R(-1, 0)>>,  \* base cell 73
      <<R(5, 3), R(10, 0), R(15, 3), R(-1, 0), R(-1, 0)>>,  \* base cell 74
      <<R(4, 3), R(9, 0), R(13, 3), R(14, 3), R(-1, 0)>>,  \* base cell 75
      <<R(8, 3), R(9, 3), R(13, 0), R(-1, 0), R(-1, 0)>>,  \* base cell 76
      <<R(11, 3), R(15, 1), R(16, 0), R(-1, 0), R(-1, 0)>>,  \* base cell 77
      <<R(10, 3), R(15, 0), R(-1, 0), R(-1, 0), R(-1, 0)>>,  \* base cell 78
      <<R(10, 3), R(15, 0), R(16, 5), R(-1, 0), R(-1, 0)>>,  \* base cell 79
      <<R(11, 3), R(16, 0), R(17, 5), R(-1, 0), R(-1, 0)>>,  \* base cell 80
      <<R(9, 3), R(14, 0), R(-1, 0), R(-1, 0), R(-1, 0)>>,  \* base cell 81
      <<R(8, 3), R(13, 0), R(-1, 0), R(-1, 0), R(-1, 0)>>,  \* base cell 82
      <<R(10, 3), R(5, 0), R(19, 1), R(14, 4), R(15, 0)>>,  \* base cell 83 (pent)
      <<R(8, 0), R(12, 3), R(13, 3), R(-1, 0), R(-1, 0)>>,  \* base cell 84
      <<R(5, 3), R(9, 3), R(14, 0), R(19, 3), R(-1, 0)>>,  \* base cell 85
      <<R(9, 0), R(13, 3), R(-1, 0), R(-1, 0), R(-1, 0)>>,  \* base cell 86
      <<R(5, 3), R(14, 0), R(19, 3), R(-1, 0), R(-1, 0)>>,  \* base cell 87
      <<R(12, 3), R(16, 1), R(17, 0), R(-1, 0), R(-1, 0)>>,  \* base cell 88
      <<R(8, 3), R(12, 0), R(17, 3), R(-1, 0), R(-1, 0)>>,  \* base cell 89
      <<R(11, 3), R(15, 1), R(16, 0), R(17, 5), R(-1, 0)>>,  \* base cell 90
      <<R(12, 3), R(17, 0), R(-1, 0), R(-1, 0), R(-1, 0)>>,  \* base cell 91
      <<R(10, 3), R(15, 0), R(19, 1), R(-1, 0), R(-1, 0)>>,  \* base cell 92
      <<R(15, 1), R(16, 0), R(-1, 0), R(-1, 0), R(-1, 0)>>,  \* base cell 93
      <<R(9, 0), R(13, 3), R(14, 3), R(-1, 0), R(-1, 0)>>,  \* base cell 94
      <<R(10, 3), R(15, 0), R(16, 5), R(19, 1), R(-1, 0)>>,  \* base cell 95
      <<R(8, 3), R(9, 3), R(13, 0), R(18, 3), R(-1, 0)>>,  \* base cell 96
      <<R(13, 3), R(8, 0), R(17, 1), R(12, 4), R(18, 0)>>,  \* base cell 97 (pent)
      <<R(8, 3), R(13, 0), R(18, 3), R(-1, 0), R(-1, 0)>>,  \* base cell 98
      <<R(16, 1), R(17, 0), R(-1, 0), R(-1, 0), R(-1, 0)>>,  \* base cell 99
      <<R(14, 3), R(15, 5), R(19, 0), R(-1, 0), R(-1, 0)>>,  \* base cell 100
      <<R(9, 3), R(14, 0), R(19, 3), R(-1, 0), R(-1, 0)>>,  \* base cell 101
      <<R(14, 3), R(19, 0), R(-1, 0), R(-1, 0), R(-1, 0)>>,  \* base cell 102
      <<R(12, 3), R(17, 0), R(18, 5), R(-1, 0), R(-1, 0)>>,  \* base cell 103
      <<R(9, 3), R(13, 0), R(18, 3), R(-1, 0), R(-1, 0)>>,  \* base cell 104
      <<R(12, 3), R(16, 1), R(17, 0), R(18, 5), R(-1, 0)>>,  \* base cell 105
      <<R(15, 1), R(16, 0), R(17, 5), R(-1, 0), R(-1, 0)>>,  \* base cell 106
      <<R(14, 3), R(9, 0), R(18, 1), R(13, 4), R(19, 0)>>,  \* base cell 107 (pent)
      <<R(15, 0), R(19, 1), R(-1, 0), R(-1, 0), R(-1, 0)>>,  \* base cell 108
      <<R(15, 0), R(16, 5), R(19, 1), R(-1, 0), R(-1, 0)>>,  \* base cell 109
      <<R(13, 3), R(18, 0), R(-1, 0), R(-1, 0), R(-1, 0)>>,  \* base cell 110
      <<R(13, 3), R(17, 1), R(18, 0), R(-1, 0), R(-1, 0)>>,  \* base cell 111
      <<R(14, 3), R(18, 1), R(19, 0), R(-1, 0), R(-1, 0)>>,  \* base cell 112
      <<R(16, 1), R(17, 0), R(18, 5), R(-1, 0), R(-1, 0)>>,  \* base cell 113
      <<R(14, 3), R(15, 5), R(18, 1), R(19, 0), R(-1, 0)>>,  \* base cell 114
      <<R(13, 3), R(18, 0), R(19, 5), R(-1, 0), R(-1, 0)>>,  \* base cell 115
      <<R(17, 1), R(18, 0), R(-1, 0), R(-1, 0), R(-1, 0)>>,  \* base cell 116
      <<R(15, 5), R(19, 0), R(17, 3), R(18, 2), R(16, 4)>>,  \* base cell 117 (pent)
      <<R(15, 5), R(18, 1), R(19, 0), R(-1, 0), R(-1, 0)>>,  \* base cell 118
      <<R(13, 3), R(17, 1), R(18, 0), R(19, 5), R(-1, 0)>>,  \* base cell 119
      <<R(18, 1), R(19, 0), R(-1, 0), R(-1, 0), R(-1, 0)>>,  \* base cell 120
      <<R(17, 1), R(18, 0), R(19, 5), R(-1, 0), R(-1, 0)>>   \* base cell 121
   >>

\* The rows the table marks "(pent)".
pentagonBaseCells == {4, 14, 24, 38, 49, 58, 63, 72, 83, 97, 107, 117}

_isBaseCellPentagon(baseCell) == baseCell \in pentagonBaseCells

\* baseCellVertexRotations[baseCell][i], i counted from 0 as in C
rotationAt(baseCell, i) == baseCellVertexRotations[baseCell + 1][i + 1]

\* The face a cell with leading digit JK must be on to cross from JK to IK:
\* baseCellVertexRotations[baseCell][IK_AXES_DIGIT - 2].face
crossingFaceJKtoIK(baseCell) == rotationAt(baseCell, IK_AXES_DIGIT - 2).face

\* Mutant of crossingFaceIKtoJ: the slot index copied from the JK branch.
crossingFaceIKtoJ_sameSlot(baseCell) ==
   rotationAt(baseCell, IK_AXES_DIGIT - 2).face

\* The face a cell with leading digit IK must be on to cross from IK to J:
\* baseCellVertexRotations[baseCell][JK_AXES_DIGIT - 2].face
crossingFaceIKtoJ(baseCell) == rotationAt(baseCell, JK_AXES_DIGIT - 2).face

crossesJKtoIK(c) ==
   /\ c.leadingDigit = JK_AXES_DIGIT
   /\ c.face = crossingFaceJKtoIK(c.baseCell)

crossesIKtoJ(c) ==
   /\ c.leadingDigit = IK_AXES_DIGIT
   /\ c.face = crossingFaceIKtoJ(c.baseCell)

\* Mutant of rotateCW: rotates the other way.
rotateCW_ccw(ccwRot60) == (ccwRot60 + 1) % 6

\* ccwRot60 == 0 ? 5 : ccwRot60 - 1
rotateCW(ccwRot60) == IF ccwRot60 = 0 THEN 5 ELSE ccwRot60 - 1

\* (ccwRot60 + 1) % 6
rotateCCW(ccwRot60) == (ccwRot60 + 1) % 6

\* Mutant of matchedRotation: the crossing tests without the pentagon test.
matchedRotation_anyBaseCell(c, ccwRot60) ==
   IF crossesJKtoIK(c) THEN rotateCW(ccwRot60)
   ELSE IF crossesIKtoJ(c) THEN rotateCCW(ccwRot60)
   ELSE ccwRot60

\* The body of "if (rotation.face == fijk.face)": the value returned for the
\* matching slot.
matchedRotation(c, ccwRot60) ==
   IF _isBaseCellPentagon(c.baseCell)
   THEN IF crossesJKtoIK(c) THEN rotateCW(ccwRot60)
        ELSE IF crossesIKtoJ(c) THEN rotateCCW(ccwRot60)
        ELSE ccwRot60
   ELSE ccwRot60

\* Mutant of slotsScanned: the loop stops one slot early.
slotsScanned_short == MAX_BASE_CELL_FACES - 1

\* The number of slots the loop of vertexRotations visits.
slotsScanned == MAX_BASE_CELL_FACES

\* The loop of vertexRotations from slot i on.
RECURSIVE scanFaces(_, _)
scanFaces(c, i) ==
   IF i >= slotsScanned
   THEN INVALID_ROTATIONS
   ELSE IF rotationAt(c.baseCell, i).face = c.face
        THEN matchedRotation(c, rotationAt(c.baseCell, i).ccwRot60)
        ELSE scanFaces(c, i + 1)

vertexRotations(c) == scanFaces(c, 0)

directionToVertexNumHex == <<INVALID_DIGIT, 3, 1, 2, 5, 4, 0>>

\* Mutant of directionToVertexNumPent: the I and IK entries are the same.
directionToVertexNumPent_dup == <<INVALID_DIGIT, INVALID_DIGIT, 1, 2, 4, 4, 0>>

directionToVertexNumPent == <<INVALID_DIGIT, INVALID_DIGIT, 1, 2, 4, 3, 0>>

\* C's % truncates towards zero: the remainder has the sign of the dividend.
CRem(a, b) == IF a >= 0 THEN a % b ELSE -((-a) % b)

\* Mutant of isInvalidDirection: the deleted K axis of pentagons is let in.
isInvalidDirection_noPentagonK(c, d) ==
   \/ d = CENTER_DIGIT
   \/ d >= INVALID_DIGIT

\* Mutant of isInvalidDirection: the last digit is taken for the sentinel.
isInvalidDirection_lastDigit(c, d) ==
   \/ d = CENTER_DIGIT
   \/ d >= IJ_AXES_DIGIT
   \/ (c.isPentagon /\ d = K_AXES_DIGIT)

\* The rejection test of vertexNumForDirection.
isInvalidDirection(c, d) ==
   \/ d = CENTER_DIGIT
   \/ d >= INVALID_DIGIT
   \/ (c.isPentagon /\ d = K_AXES_DIGIT)

\* Mutant of rotatedSum: the modulus is not added before the subtraction.
rotatedSum_noModulus(c, d, rots) ==
   IF c.isPentagon
   THEN directionToVertexNumPent[d + 1] - rots
   ELSE directionToVertexNumHex[d + 1] - rots

\* The dividend of the final expression, for a direction inside the tables.
rotatedSum(c, d, rots) ==
   IF c.isPentagon
   THEN directionToVertexNumPent[d + 1] + NUM_PENT_VERTS - rots
   ELSE directionToVertexNumHex[d + 1] + NUM_HEX_VERTS - rots

\* Mutant of rotatedVertexNum: the rotation is added instead of subtracted.
rotatedVertexNum_added(c, d, rots) ==
   IF c.isPentagon
   THEN CRem(directionToVertexNumPent[d + 1] + rots, NUM_PENT_VERTS)
   ELSE CRem(directionToVertexNumHex[d + 1] + rots, NUM_HEX_VERTS)

\* The final expression of vertexNumForDirection.
rotatedVertexNum(c, d, rots) ==
   IF c.isPentagon
   THEN CRem(rotatedSum(c, d, rots), NUM_PENT_VERTS)
   ELSE CRem(rotatedSum(c, d, rots), NUM_HEX_VERTS)

\* Mutant of vertexNumForRotations: INVALID_ROTATIONS is not checked.
vertexNumForRotations_unchecked(c, d, rots) == rotatedVertexNum(c, d, rots)

\* vertexNumForDirection after the direction check, given the value that
\* vertexRotations returned.
vertexNumForRotations(c, d, rots) ==
   IF rots = INVALID_ROTATIONS
   THEN INVALID_VERTEX_NUM
   ELSE rotatedVertexNum(c, d, rots)

vertexNumForDirection(c, d) ==
   IF isInvalidDirection(c, d)
   THEN INVALID_VERTEX_NUM
   ELSE vertexNumForRotations(c, d, vertexRotations(c))

(***************************************************************************)
(* The cells.  face, baseCell and leadingDigit range over everything the   *)
(* collaborators can return.  isPentagon is the value of h3IsPentagon,     *)
(* which is true only of cells of pentagonal base cells, and is true of    *)
(* the cell of a pentagonal base cell that has no non-zero digit.          *)
(***************************************************************************)
Cells ==
   { c \in [baseCell : 0 .. NUM_BASE_CELLS - 1,
            face : 0 .. NUM_ICOSA_FACES - 1,
            leadingDigit : CENTER_DIGIT .. IJ_AXES_DIGIT,
            isPentagon : BOOLEAN] :
       /\ c.isPentagon => _isBaseCellPentagon(c.baseCell)
       /\ (_isBaseCellPentagon(c.baseCell) /\ c.leadingDigit = CENTER_DIGIT)
             => c.isPentagon }

Init ==
   /\ cell \in Cells
   /\ pc = "query"
   /\ direction = << >>
   /\ rotations = << >>
   /\ sum = << >>
   /\ result = << >>

\* int vertexRotations(H3Index cell)
VertexRotations ==
   /\ pc = "query"
   /\ pc' = "vertexRotations"
   /\ result' = <<vertexRotations(cell)>>
   /\ UNCHANGED <<cell, direction, rotations, sum>>

\* int vertexNumForDirection(const H3Index origin, const Direction direction)
\* rotations is the local variable of that name, sum the dividend of the final
\* expression; both stay empty on the paths that do not compute them.
VertexNumForDirection ==
   /\ pc = "query"
   /\ \E d \in 0 .. MaxDirection :
         /\ direction' = <<d>>
         /\ rotations' = IF isInvalidDirection(cell, d)
                         THEN << >>
                         ELSE <<vertexRotations(cell)>>
         /\ sum' = IF isInvalidDirection(cell, d)
                      \/ vertexRotations(cell) = INVALID_ROTATIONS
                   THEN << >>
                   ELSE <<rotatedSum(cell, d, vertexRotations(cell))>>
         /\ result' = <<vertexNumForDirection(cell, d)>>
   /\ pc' = "vertexNumForDirection"
   /\ UNCHANGED cell

Next == VertexRotations \/ VertexNumForDirection

Spec == Init /\ [][Next]_vars

(***************************************************************************)
(* Properties.                                                             *)
(***************************************************************************)

\* Some slot of the cell's base cell records the cell's face.
HasAssociation(c) ==
   \E i \in 0 .. MAX_BASE_CELL_FACES - 1 :
      rotationAt(c.baseCell, i).face = c.face

\* The rotation recorded for the cell's face (no row repeats a face).
baseRot(c) ==
   LET i == CHOOSE j \in 0 .. MAX_BASE_CELL_FACES - 1 :
               rotationAt(c.baseCell, j).face = c.face
   IN  rotationAt(c.baseCell, i).ccwRot60

\* The directions vertexNumForDirection does not reject for the cell.
Accepted(c, d) ==
   /\ d \in K_AXES_DIGIT .. IJ_AXES_DIGIT
   /\ ~(c.isPentagon /\ d = K_AXES_DIGIT)

Modulus(c) == IF c.isPentagon THEN 5 ELSE 6

Canonical(c, d) ==
   IF c.isPentagon
   THEN directionToVertexNumPent[d + 1]
   ELSE directionToVertexNumHex[d + 1]

DoneRotations == pc = "vertexRotations"

DoneVertexNum == pc = "vertexNumForDirection"

\* C1 as stated: vertexNumForDirection returns INVALID_VERTEX_NUM when the
\* direction is CENTER or an ordinal at or beyond INVALID, and for the K axis
\* on every cell of a pentagonal base cell.
C1_Original ==
   (/\ DoneVertexNum
    /\ \/ direction[1] = CENTER_DIGIT
       \/ direction[1] >= INVALID_DIGIT
       \/ (_isBaseCellPentagon(cell.baseCell) /\ direction[1] = K_AXES_DIGIT))
   => result[1] = INVALID_VERTEX_NUM

\* C1 amended: vertexNumForDirection returns INVALID_VERTEX_NUM, without
\* consulting vertexRotations, when the direction is CENTER or an ordinal at
\* or beyond INVALID, and for the K axis on every cell that h3IsPentagon
\* reports as a pentagon.
C1_RejectedDirections ==
   (/\ DoneVertexNum
    /\ \/ direction[1] = CENTER_DIGIT
       \/ direction[1] >= INVALID_DIGIT
       \/ (cell.isPentagon /\ direction[1] = K_AXES_DIGIT))
   => /\ result[1] = INVALID_VERTEX_NUM
      /\ rotations = << >>

\* A pentagon whose rotation resolves was asked for the K axis and refused.
C1_Witness ==
   /\ DoneVertexNum
   /\ cell.isPentagon
   /\ HasAssociation(cell)
   /\ direction = <<K_AXES_DIGIT>>
   /\ result = <<INVALID_VERTEX_NUM>>

\* C2: for an accepted direction and a rotation in 0..5, the dividend
\* canonicalVertex + modulus - rotation is not negative and the result is in
\* 0..5 for a hexagon and in 0..4 for a pentagon.
C2_VertexNumInRange ==
   (/\ DoneVertexNum
    /\ Accepted(cell, direction[1])
    /\ rotations # << >>
    /\ rotations[1] \in 0 .. 5)
   => /\ sum # << >>
      /\ sum[1] >= 0
      /\ result[1] \in 0 .. (IF cell.isPentagon THEN 4 ELSE 5)

\* A pentagon with rotation 5 got a vertex number in 0..4.
C2_Witness ==
   /\ DoneVertexNum
   /\ cell.isPentagon
   /\ cell.leadingDigit = CENTER_DIGIT
   /\ rotations = <<5>>
   /\ result # << >>
   /\ result[1] \in 0 .. 4

\* C3 as stated: for a cell whose rotation resolves, the directions that get a
\* vertex number are exactly K, J, JK, I, IK on a hexagon and J, JK, I, IK on a
\* pentagon; every other ordinal, 6 included, gets INVALID_VERTEX_NUM.
C3_Original ==
   (DoneVertexNum /\ HasAssociation(cell))
   => (result[1] # INVALID_VERTEX_NUM
         <=> direction[1] \in
                (IF cell.isPentagon
                 THEN J_AXES_DIGIT .. IK_AXES_DIGIT
                 ELSE K_AXES_DIGIT .. IK_AXES_DIGIT))

\* C3 amended: for a cell whose rotation resolves, the directions that get a
\* vertex number are exactly the six ordinals 1..6 (K, J, JK, I, IK, IJ) on a
\* hexagon and the five ordinals 2..6 on a pentagon; CENTER and every ordinal
\* from INVALID (7) on get INVALID_VERTEX_NUM.
C3_AcceptedDirections ==
   (DoneVertexNum /\ HasAssociation(cell))
   => (result[1] # INVALID_VERTEX_NUM
         <=> direction[1] \in
                (IF cell.isPentagon
                 THEN J_AXES_DIGIT .. IJ_AXES_DIGIT
                 ELSE K_AXES_DIGIT .. IJ_AXES_DIGIT))

\* Ordinal 6 got a vertex number on a pentagon.
C3_Witness ==
   /\ DoneVertexNum
   /\ cell.isPentagon
   /\ HasAssociation(cell)
   /\ direction = <<IJ_AXES_DIGIT>>
   /\ result[1] \in 0 .. 4

\* C4: on a cell whose face is one of its base cell's recorded faces,
\* vertexRotations returns a value in 0..5, whatever the leading digit.
C4_RotationsInRange ==
   (DoneRotations /\ HasAssociation(cell))
   => result[1] \in 0 .. 5

\* The face recorded in the last slot of a pentagonal base cell resolved.
C4_Witness ==
   /\ DoneRotations
   /\ _isBaseCellPentagon(cell.baseCell)
   /\ cell.face = rotationAt(cell.baseCell, MAX_BASE_CELL_FACES - 1).face
   /\ result[1] \in 0 .. 5

\* C5: in a pentagonal base cell, leading digit JK on the face of slot 3
\* yields (baseRot - 1) mod 6, and leading digit IK on the face of slot 1
\* yields (baseRot + 1) mod 6.
C5_CrossingCorrection ==
   (DoneRotations /\ _isBaseCellPentagon(cell.baseCell) /\ HasAssociation(cell))
   => /\ (/\ cell.leadingDigit = JK_AXES_DIGIT
          /\ cell.face = rotationAt(cell.baseCell, 3).face)
         => result[1] = (baseRot(cell) + 5) % 6
      /\ (/\ cell.leadingDigit = IK_AXES_DIGIT
          /\ cell.face = rotationAt(cell.baseCell, 1).face)
         => result[1] = (baseRot(cell) + 1) % 6

\* A cell crossing from JK to IK got its recorded rotation less one.
C5_Witness ==
   /\ DoneRotations
   /\ _isBaseCellPentagon(cell.baseCell)
   /\ cell.leadingDigit = JK_AXES_DIGIT
   /\ cell.face = rotationAt(cell.baseCell, 3).face
   /\ result = <<baseRot(cell) - 1>>

\* C6: when no crossing condition holds (always so in a hexagonal base cell),
\* vertexRotations returns the rotation recorded for the cell's face.
C6_NoCorrection ==
   (/\ DoneRotations
    /\ HasAssociation(cell)
    /\ ~(/\ _isBaseCellPentagon(cell.baseCell)
         /\ \/ /\ cell.leadingDigit = JK_AXES_DIGIT
               /\ cell.face = rotationAt(cell.baseCell, 3).face
            \/ /\ cell.leadingDigit = IK_AXES_DIGIT
               /\ cell.face = rotationAt(cell.baseCell, 1).face))
   => result[1] = baseRot(cell)

\* A hexagonal base cell, leading digit JK, on the face of its slot 3 with
\* recorded rotation 3, got 3.
C6_Witness ==
   /\ DoneRotations
   /\ ~_isBaseCellPentagon(cell.baseCell)
   /\ cell.leadingDigit = JK_AXES_DIGIT
   /\ cell.face = rotationAt(cell.baseCell, 3).face
   /\ baseRot(cell) = 3
   /\ result = <<3>>

\* C7: for an accepted direction and rotation R in 0..5 the result is the
\* vertex number v of the cell's range with v + R = canonicalVertex modulo
\* the modulus (6 for a hexagon, 5 for a pentagon); with R = 0 it is the
\* canonical entry itself.
C7_RotatedVertexNum ==
   (/\ DoneVertexNum
    /\ Accepted(cell, direction[1])
    /\ rotations # << >>
    /\ rotations[1] \in 0 .. 5)
   => /\ result[1] \in 0 .. Modulus(cell) - 1
      /\ (result[1] + rotations[1]) % Modulus(cell)
            = Canonical(cell, direction[1]) % Modulus(cell)
      /\ rotations[1] = 0 => result[1] = Canonical(cell, direction[1])

\* A hexagon with rotation 0 got the canonical entry for the J axis.
C7_Witness ==
   /\ DoneVertexNum
   /\ ~cell.isPentagon
   /\ rotations = <<0>>
   /\ direction = <<J_AXES_DIGIT>>
   /\ result = <<1>>

\* C8: vertexRotations returns INVALID_ROTATIONS exactly when no slot of the
\* base cell records the cell's face, and vertexNumForDirection then returns
\* INVALID_VERTEX_NUM for every direction that passes the direction check.
C8_Unresolved ==
   /\ DoneRotations
         => (result[1] = INVALID_ROTATIONS <=> ~HasAssociation(cell))
   /\ (DoneVertexNum /\ ~HasAssociation(cell) /\ Accepted(cell, direction[1]))
         => /\ rotations = <<INVALID_ROTATIONS>>
            /\ result[1] = INVALID_VERTEX_NUM

\* An accepted direction on a cell whose face is not recorded got the sentinel.
C8_Witness ==
   /\ DoneVertexNum
   /\ ~HasAssociation(cell)
   /\ Accepted(cell, direction[1])
   /\ result = <<INVALID_VERTEX_NUM>>

\* C9: in every pentagonal base cell the face of the JK-to-IK correction
\* (slot 3) differs from the face of the IK-to-J correction (slot 1), and no
\* cell meets both crossing conditions.
C9_CorrectionsExclusive ==
   _isBaseCellPentagon(cell.baseCell)
   => /\ crossingFaceJKtoIK(cell.baseCell) # crossingFaceIKtoJ(cell.baseCell)
      /\ rotationAt(cell.baseCell, 3).face # rotationAt(cell.baseCell, 1).face
      /\ ~(crossesJKtoIK(cell) /\ crossesIKtoJ(cell))

\* A cell crossing from IK to J was corrected, and only that way.
C9_Witness ==
   /\ DoneRotations
   /\ _isBaseCellPentagon(cell.baseCell)
   /\ crossesIKtoJ(cell)
   /\ ~crossesJKtoIK(cell)
   /\ result = <<baseRot(cell) + 1>>

\* C10: for a cell whose rotation resolves, no other accepted direction gets
\* the vertex number an accepted direction got, and the accepted directions
\* get all of 0..5 on a hexagon and all of 0..4 on a pentagon.
C10_Bijective ==
   (DoneVertexNum /\ HasAssociation(cell) /\ Accepted(cell, direction[1]))
   => /\ \A d \in 0 .. MaxDirection :
            (Accepted(cell, d) /\ d # direction[1])
               => vertexNumForDirection(cell, d) # result[1]
      /\ { vertexNumForDirection(cell, d) :
              d \in { e \in 0 .. MaxDirection : Accepted(cell, e) } }
            = 0 .. Modulus(cell) - 1

\* A hexagonal cell with rotation 4 got a vertex number.
C10_Witness ==
   /\ DoneVertexNum
   /\ ~cell.isPentagon
   /\ rotations = <<4>>
   /\ Accepted(cell, direction[1])
   /\ result[1] \in 0 .. 5

====
